---- MODULE Spec2Model ----
(***************************************************************************)
(* A model of src/lib.rs: RamDisk<BLOCK_SIZE, NUM_BLOCKS>, a fixed array   *)
(* of NUM_BLOCKS blocks of BLOCK_SIZE bytes with checked read, write and   *)
(* write_from_str.                                                         *)
(*                                                                         *)
(* Arrays and slices are functions over 0..len-1, as Rust indexes them.    *)
(* The operations are operators from the store and the arguments to the    *)
(* outcome (what is returned, the store and the caller's buffer after);    *)
(* a call is one action, and `last` records the call that produced the     *)
(* state.                                                                  *)
(***************************************************************************)
EXTENDS Integers, FiniteSets

\* Largest NUM_BLOCKS and BLOCK_SIZE a store is instantiated with.
MaxBlocks == 2
MaxSize == 2

\* Width of usize in bits (TLC's integers are 32 bits wide, so the model is
\* of a 16-bit target; only usize::MAX = 2^USIZE_BITS - 1 depends on it).
USIZE_BITS == 16
USIZE_MOD == 2 ^ USIZE_BITS

\* The byte values the inputs are drawn from. No operation inspects a byte,
\* it only copies it; both values are valid in a &str (NUL and 'A').
ByteSample == {0, 65}

\* [u8; n] and the bytes of a &str, indexed from 0.
Array(n) == [0 .. n - 1 -> ByteSample]
len(s) == Cardinality(DOMAIN s)

VARIABLES
    NUM_BLOCKS,       \* const generic: the number of blocks
    BLOCK_SIZE,       \* const generic: the bytes per block
    overflow_checks,  \* the build: TRUE when arithmetic overflow panics (debug)
    blocks,           \* RamDisk.blocks: [[u8; BLOCK_SIZE]; NUM_BLOCKS]
    written,          \* indices whose contents a caller has supplied: by a
                      \* write or write_from_str that returned Ok, or all of
                      \* them when the store was built by RamDisk::blocks
    status,           \* "running", or "panicked" once a call has panicked
    last              \* the last call: op, block, len (of its buffer or
                      \* text), ret

vars == <<NUM_BLOCKS, BLOCK_SIZE, overflow_checks, blocks, written, status, last>>

\* ------------------------------------------------------------ RamDiskError
Ok == <<"Ok">>
IllegalBlockRead(block, max) == <<"IllegalBlockRead", block, max>>
IllegalBlockWrite(block, max) == <<"IllegalBlockWrite", block, max>>
\* What a call that panicked hands back: nothing.
NoReturn == <<"panic">>

IsErr(ret) == ret[1] \in {"IllegalBlockRead", "IllegalBlockWrite"}

\* ------------------------------------------------------------ core helpers
\* <[T]>::get / get_mut: Some(&s[i]) when i < s.len(), else None.
get(s, i) == IF i < len(s) THEN [some |-> TRUE, at |-> i] ELSE [some |-> FALSE, at |-> 0]

\* usize subtraction a - b: exact when it fits; below zero it panics with
\* overflow checks on and wraps modulo 2^USIZE_BITS with them off.
usize_sub(a, b) ==
    IF a >= b THEN [panic |-> FALSE, val |-> a - b]
    ELSE IF overflow_checks THEN [panic |-> TRUE, val |-> 0]
    ELSE [panic |-> FALSE, val |-> (a - b) % USIZE_MOD]

\* ------------------------------------------------------------ RamDisk
new_mut_fill == [i \in 0 .. NUM_BLOCKS - 1 |-> [k \in 0 .. BLOCK_SIZE - 1 |-> 65]]

\* RamDisk::new: every byte of every block is 0.
new == [i \in 0 .. NUM_BLOCKS - 1 |-> [k \in 0 .. BLOCK_SIZE - 1 |-> 0]]

\* RamDisk::blocks: the store takes the caller's array as it is.
from_blocks(given) == given

num_blocks == NUM_BLOCKS

block_size == BLOCK_SIZE

total_storage_mut == NUM_BLOCKS + BLOCK_SIZE

\* The array type exists only when its size fits isize (see StoreTypes), so
\* the product does not overflow.
total_storage == NUM_BLOCKS * BLOCK_SIZE

\* The Err arm shared by the three operations: the error value is built from
\* num_blocks() - 1, which is evaluated before the Err is returned.
out_of_range(disk, buffer, block, kind) ==
    LET max == usize_sub(num_blocks, 1) IN
    IF max.panic
    THEN [panic |-> TRUE, ret |-> NoReturn, disk |-> disk, buffer |-> buffer]
    ELSE [panic |-> FALSE,
          ret |-> IF kind = "read" THEN IllegalBlockRead(block, max.val)
                                   ELSE IllegalBlockWrite(block, max.val),
          disk |-> disk, buffer |-> buffer]

read_mut_max(disk, block, buffer) ==
    LET found == get(disk, block) IN
    IF found.some
    THEN [panic |-> FALSE, ret |-> Ok, disk |-> disk, buffer |-> disk[found.at]]
    ELSE [panic |-> FALSE, ret |-> IllegalBlockRead(block, num_blocks),
          disk |-> disk, buffer |-> buffer]

read_mut_clear(disk, block, buffer) ==
    LET found == get(disk, block) IN
    IF found.some
    THEN [panic |-> FALSE, ret |-> Ok, disk |-> disk, buffer |-> disk[found.at]]
    ELSE [out_of_range(disk, buffer, block, "read")
             EXCEPT !.buffer = [k \in DOMAIN buffer |-> 0]]

\* RamDisk::read: *buffer = *found on a block in range.
read(disk, block, buffer) ==
    LET found == get(disk, block) IN
    IF found.some
    THEN [panic |-> FALSE, ret |-> Ok, disk |-> disk, buffer |-> disk[found.at]]
    ELSE out_of_range(disk, buffer, block, "read")

write_mut_short(disk, block, buffer) ==
    LET found == get(disk, block) IN
    IF found.some
    THEN [panic |-> FALSE, ret |-> Ok, buffer |-> buffer,
          disk |-> [disk EXCEPT ![found.at] =
                      [k \in DOMAIN @ |-> IF k + 1 < len(buffer) THEN buffer[k] ELSE @[k]]]]
    ELSE out_of_range(disk, buffer, block, "write")

write_mut_all(disk, block, buffer) ==
    LET found == get(disk, block) IN
    IF found.some
    THEN [panic |-> FALSE, ret |-> Ok, buffer |-> buffer,
          disk |-> [j \in DOMAIN disk |-> buffer]]
    ELSE out_of_range(disk, buffer, block, "write")

\* RamDisk::write: *found = *buffer on a block in range.
write(disk, block, buffer) ==
    LET found == get(disk, block) IN
    IF found.some
    THEN [panic |-> FALSE, ret |-> Ok, buffer |-> buffer,
          disk |-> [disk EXCEPT ![found.at] = buffer]]
    ELSE out_of_range(disk, buffer, block, "write")

\* contents.as_bytes().iter().enumerate().take(BLOCK_SIZE): the positions the
\* loop of write_from_str visits.
taken(contents) == {i \in DOMAIN contents : i < BLOCK_SIZE}

write_from_str_mut_take(disk, block, contents) ==
    LET found == get(disk, block) IN
    IF found.some
    THEN [panic |-> FALSE, ret |-> Ok, buffer |-> contents,
          disk |-> [disk EXCEPT ![found.at] =
                      [k \in DOMAIN @ |->
                          IF k \in taken(contents) /\ k + 1 < BLOCK_SIZE
                          THEN contents[k] ELSE @[k]]]]
    ELSE out_of_range(disk, contents, block, "write")

write_from_str_mut_fill(disk, block, contents) ==
    LET found == get(disk, block) IN
    IF found.some
    THEN [panic |-> FALSE, ret |-> Ok, buffer |-> contents,
          disk |-> [disk EXCEPT ![found.at] =
                      [k \in DOMAIN @ |->
                          IF k \in taken(contents) THEN contents[k] ELSE 0]]]
    ELSE out_of_range(disk, contents, block, "write")

\* RamDisk::write_from_str: found[i] = *byte for each position taken; the
\* rest of the block is not assigned.
write_from_str(disk, block, contents) ==
    LET found == get(disk, block) IN
    IF found.some
    THEN [panic |-> FALSE, ret |-> Ok, buffer |-> contents,
          disk |-> [disk EXCEPT ![found.at] =
                      [k \in DOMAIN @ |->
                          IF k \in taken(contents) THEN contents[k] ELSE @[k]]]]
    ELSE out_of_range(disk, contents, block, "write")

\* ------------------------------------------------------------ inputs
\* Block indices passed by callers: every index of the largest store, and
\* MaxBlocks itself, so each store sees its own num_blocks() and beyond
\* unless it is the largest, which sees exactly num_blocks().
Indices == 0 .. MaxBlocks
\* Texts as long as one byte more than the largest block.
MaxTextLen == MaxSize + 1
Texts == UNION {Array(n) : n \in 0 .. MaxTextLen}

\* The instantiations RamDisk<BLOCK_SIZE, NUM_BLOCKS> that compile: the
\* array type must not be larger than isize::MAX bytes.
StoreTypes ==
    {t \in (0 .. MaxSize) \X (0 .. MaxBlocks) : t[1] * t[2] <= USIZE_MOD \div 2 - 1}

\* The builds a store type is checked under. With overflow checks on, any
\* overflow shows as a panic; a store that never panics under them computes
\* the same values with them off. Only 0 - 1 overflows in this code, so both
\* builds are kept for the zero-block store and the checked one for the rest.
Builds == IF NUM_BLOCKS = 0 THEN BOOLEAN ELSE {TRUE}

Ops == {"read", "write", "write_from_str"}

\* ------------------------------------------------------------ behaviour
\* A store built by RamDisk::new.
InitNew ==
    /\ blocks = new
    /\ written = {}
    /\ last = [op |-> "new", block |-> 0, len |-> 0, ret |-> Ok]

\* A store built by RamDisk::blocks from an array the caller filled.
InitBlocks ==
    /\ blocks \in {from_blocks(given) :
                    given \in [0 .. NUM_BLOCKS - 1 -> Array(BLOCK_SIZE)]}
    /\ written = DOMAIN blocks
    /\ last = [op |-> "blocks", block |-> 0, len |-> 0, ret |-> Ok]

Init ==
    /\ \E t \in StoreTypes : BLOCK_SIZE = t[1] /\ NUM_BLOCKS = t[2]
    /\ overflow_checks \in Builds
    /\ status = "running"
    /\ InitNew \/ InitBlocks

\* What every call does with the outcome r of its operation.
Call(op, block, arg, r) ==
    /\ blocks' = r.disk
    /\ status' = IF r.panic THEN "panicked" ELSE "running"
    /\ written' = IF op # "read" /\ r.ret = Ok THEN written \cup {block} ELSE written
    /\ last' = [op |-> op, block |-> block, len |-> len(arg), ret |-> r.ret]
    /\ UNCHANGED <<NUM_BLOCKS, BLOCK_SIZE, overflow_checks>>

Read ==
    /\ status = "running"
    /\ \E block \in Indices, buffer \in Array(BLOCK_SIZE) :
          Call("read", block, buffer, read(blocks, block, buffer))

Write ==
    /\ status = "running"
    /\ \E block \in Indices, buffer \in Array(BLOCK_SIZE) :
          Call("write", block, buffer, write(blocks, block, buffer))

WriteFromStr ==
    /\ status = "running"
    /\ \E block \in Indices, contents \in Texts :
          Call("write_from_str", block, contents, write_from_str(blocks, block, contents))

Next == Read \/ Write \/ WriteFromStr

Spec == Init /\ [][Next]_vars

\* ------------------------------------------------------------ properties
\* The indices a store accepts, and the out-of-range indices tried: those of
\* Indices and usize::MAX.
InRange == {i \in Indices : i < NUM_BLOCKS}
OutOfRange == {i \in Indices \cup {USIZE_MOD - 1} : i >= NUM_BLOCKS}
Buffers == Array(BLOCK_SIZE)
Zeros == [k \in 0 .. BLOCK_SIZE - 1 |-> 0]
NonZero(b) == \E k \in DOMAIN b : b[k] # 0

\* What Builds rests on: a store of at least one block never panics with the
\* overflow checks on, so no call on it overflows in either build.
NoOverflowWithBlocks == NUM_BLOCKS >= 1 => (overflow_checks /\ status = "running")

\* C1 (round trip): in every reachable store, for every index in range and
\* every buffer b of BLOCK_SIZE bytes, write(i, b) returns Ok and a read(i, out)
\* of the store it leaves returns Ok with out = b, whatever out held.
C1_RoundTrip ==
    \A i \in InRange, b \in Buffers :
        LET w == write(blocks, i, b)
        IN  /\ ~w.panic /\ w.ret = Ok
            /\ \A out \in Buffers :
                  LET r == read(w.disk, i, out)
                  IN  ~r.panic /\ r.ret = Ok /\ r.buffer = b

\* A write of non-zero bytes has returned Ok, and the block reads back.
C1_Witness ==
    /\ last.op = "write" /\ last.ret = Ok
    /\ NonZero(blocks[last.block])
    /\ read(blocks, last.block, Zeros).buffer = blocks[last.block]

\* C2 (isolation): a write or write_from_str that returns Ok for block i
\* leaves every other block j # i as it was.
C2_Isolation ==
    \A i \in InRange :
        /\ \A b \in Buffers :
              LET w == write(blocks, i, b)
              IN  w.ret = Ok => \A j \in InRange \ {i} : w.disk[j] = blocks[j]
        /\ \A text \in Texts :
              LET w == write_from_str(blocks, i, text)
              IN  w.ret = Ok => \A j \in InRange \ {i} : w.disk[j] = blocks[j]

\* A write has returned Ok while another block holds different, non-zero bytes.
C2_Witness ==
    /\ last.op \in {"write", "write_from_str"} /\ last.ret = Ok
    /\ \E j \in InRange :
          j # last.block /\ NonZero(blocks[j]) /\ blocks[j] # blocks[last.block]

\* C3 (bounds rejection): a read, write or write_from_str of an index
\* i >= num_blocks() returns an Err, and no block of the store changes.
C3_BoundsRejection ==
    /\ (last.op \in Ops /\ last.block >= num_blocks) => IsErr(last.ret)
    /\ \A i \in OutOfRange :
          /\ \A b \in Buffers : read(blocks, i, b).disk = blocks
          /\ \A b \in Buffers : write(blocks, i, b).disk = blocks
          /\ \A text \in Texts : write_from_str(blocks, i, text).disk = blocks

\* C4 (no panic): in every store that can be constructed, the zero-block one
\* included, a call with an index out of range runs to completion and returns
\* an Err whose maximum is num_blocks() - 1, computed without underflow.
C4_NeverPanics ==
    /\ status = "running"
    /\ (last.op \in Ops /\ last.block >= NUM_BLOCKS) =>
          (IsErr(last.ret) /\ last.ret[3] = NUM_BLOCKS - 1)

\* C5 (truncating write): for an index in range and a text longer than
\* BLOCK_SIZE, write_from_str returns Ok and the block then holds the first
\* BLOCK_SIZE bytes of the text, whatever it held before.
C5_Truncating ==
    \A i \in InRange, text \in Texts :
        len(text) > BLOCK_SIZE =>
            LET w == write_from_str(blocks, i, text)
            IN  /\ ~w.panic /\ w.ret = Ok
                /\ w.disk[i] = [k \in 0 .. BLOCK_SIZE - 1 |-> text[k]]

\* An oversized text has been written into a block, which holds non-zero bytes.
C5_Witness ==
    /\ last.op = "write_from_str" /\ last.ret = Ok
    /\ last.len > BLOCK_SIZE /\ BLOCK_SIZE >= 1
    /\ NonZero(blocks[last.block])

\* C6 (partial write): for an index in range and a text shorter than
\* BLOCK_SIZE, write_from_str returns Ok, bytes [0, len) of the block are the
\* text and bytes [len, BLOCK_SIZE) are what they were.
C6_PartialKeepsTail ==
    \A i \in InRange, text \in Texts :
        len(text) < BLOCK_SIZE =>
            LET w == write_from_str(blocks, i, text)
            IN  /\ ~w.panic /\ w.ret = Ok
                /\ \A k \in 0 .. len(text) - 1 : w.disk[i][k] = text[k]
                /\ \A k \in len(text) .. BLOCK_SIZE - 1 : w.disk[i][k] = blocks[i][k]

\* A short, non-empty text has been written over a block whose tail is not
\* zero afterwards.
C6_Witness ==
    /\ last.op = "write_from_str" /\ last.ret = Ok
    /\ 1 <= last.len /\ last.len < BLOCK_SIZE
    /\ \E k \in last.len .. BLOCK_SIZE - 1 : blocks[last.block][k] # 0

\* C7 (buffer untouched): a read of an index out of range that returns its
\* error leaves every byte of the caller's buffer as it was.
C7_BufferUntouched ==
    \A i \in OutOfRange, buffer \in Buffers :
        LET r == read(blocks, i, buffer)
        IN  IsErr(r.ret) => r.buffer = buffer

\* A read of a non-empty block size has returned its error.
C7_Witness ==
    /\ last.op = "read" /\ IsErr(last.ret)
    /\ BLOCK_SIZE >= 1 /\ last.len = BLOCK_SIZE

\* C8 (error identification): in a store of at least one block, an index
\* i >= NUM_BLOCKS makes read return IllegalBlockRead(i, NUM_BLOCKS - 1) and
\* write and write_from_str return IllegalBlockWrite(i, NUM_BLOCKS - 1).
C8_ErrorIdentification ==
    NUM_BLOCKS >= 1 =>
        /\ \A i \in OutOfRange :
              /\ \A b \in Buffers :
                    /\ read(blocks, i, b).ret = IllegalBlockRead(i, NUM_BLOCKS - 1)
                    /\ write(blocks, i, b).ret = IllegalBlockWrite(i, NUM_BLOCKS - 1)
              /\ \A text \in Texts :
                    write_from_str(blocks, i, text).ret
                        = IllegalBlockWrite(i, NUM_BLOCKS - 1)
        /\ (last.op = "read" /\ last.block >= NUM_BLOCKS) =>
              last.ret = IllegalBlockRead(last.block, NUM_BLOCKS - 1)
        /\ (last.op \in {"write", "write_from_str"} /\ last.block >= NUM_BLOCKS) =>
              last.ret = IllegalBlockWrite(last.block, NUM_BLOCKS - 1)

\* A store of at least one block has rejected an index with an error that
\* names it.
C8_Witness ==
    /\ NUM_BLOCKS >= 1
    /\ last.op \in Ops /\ IsErr(last.ret)
    /\ last.ret[2] = last.block /\ last.block >= NUM_BLOCKS

\* C9 (zero-initialised): right after new() every block in range reads as
\* BLOCK_SIZE zero bytes, and later every block that no write or
\* write_from_str has returned Ok for still does.
C9_ZeroInitialised ==
    \A j \in InRange, out \in Buffers :
        (last.op = "new" \/ j \notin written) =>
            LET r == read(blocks, j, out)
            IN  r.ret = Ok /\ r.buffer = Zeros

\* After calls, a written block holds non-zero bytes beside one never written.
C9_Witness ==
    /\ last.op \in Ops /\ BLOCK_SIZE >= 1
    /\ \E i \in written : NonZero(blocks[i])
    /\ \E j \in InRange : j \notin written

\* C10 (capacity): in every reachable state num_blocks() and block_size() are
\* the N and S of the store's type, total_storage() is N * S, and the store
\* holds N blocks of S bytes each.
C10_Capacity ==
    /\ num_blocks = NUM_BLOCKS
    /\ block_size = BLOCK_SIZE
    /\ total_storage = num_blocks * block_size
    /\ DOMAIN blocks = 0 .. num_blocks - 1
    /\ \A i \in DOMAIN blocks : DOMAIN blocks[i] = 0 .. block_size - 1
    /\ total_storage
          = Cardinality({c \in (0 .. MaxBlocks) \X (0 .. MaxSize) :
                           c[1] \in DOMAIN blocks /\ c[2] \in DOMAIN blocks[c[1]]})

\* A call has failed in a store of several bytes that earlier calls wrote to.
C10_Witness ==
    /\ last.op \in Ops /\ IsErr(last.ret)
    /\ total_storage >= 2
    /\ \E i \in written : NonZero(blocks[i])

====
